---- MODULE Spec2Model ----
(***************************************************************************)
(* Air-traffic scenario data model: Sector, Flight, FlightPlan, Scenario   *)
(* and load_scenario_from_file (src/definitions/*.py).                     *)
(*                                                                         *)
(* Python objects that are shared by reference (numpy capacity arrays,     *)
(* lists of plans, lists of flights and sectors) live on heaps: a heap is  *)
(* a sequence of objects and a reference is an index into it.  Reference 0 *)
(* stands for None.  Python index i of an array or list is position i + 1  *)
(* of the TLA+ sequence.                                                   *)
(***************************************************************************)
EXTENDS Integers, Sequences, FiniteSets, TLC

VARIABLES
    arrays,     \* heap of numpy arrays: arrays[a] is the content of array a
    held,       \* references to arrays the caller created and still holds
    sectors,    \* the Sector objects constructed so far
    sop,        \* the last Sector-level operation and its outcome
    planLists,  \* heap of Python lists of FlightPlan objects
    heldLists,  \* references to plan lists the caller holds
    flights,    \* the Flight objects constructed so far
    fop,        \* the last Flight-level operation and its outcome
    colls,      \* heap of Python lists of Flight or Sector objects
    heldColls,  \* references to such lists the caller holds
    scenarios,  \* the Scenario objects constructed so far
    cop,        \* the last Scenario-level operation and its outcome
    fpIn,       \* the arguments of the last FlightPlan construction
    fpOut,      \* its outcome: the error raised, or the plan built
    ldIn,       \* the parsed YAML document load_scenario_from_file works on
    ldOut       \* its outcome: the error raised, or the Scenario returned

sectorVars == <<arrays, held, sectors, sop>>
flightVars == <<planLists, heldLists, flights, fop>>
scenarioVars == <<colls, heldColls, scenarios, cop>>

planVars == <<fpIn, fpOut>>
loadVars == <<ldIn, ldOut>>

vars == <<arrays, held, sectors, sop, planLists, heldLists, flights, fop,
          colls, heldColls, scenarios, cop, fpIn, fpOut, ldIn, ldOut>>

nonSectorVars == <<flightVars, scenarioVars, planVars, loadVars>>
nonFlightVars == <<sectorVars, scenarioVars, planVars, loadVars>>
nonScenarioVars == <<sectorVars, flightVars, planVars, loadVars>>
nonPlanVars == <<sectorVars, flightVars, scenarioVars, loadVars>>
nonLoadVars == <<sectorVars, flightVars, scenarioVars, planVars>>

\* ------------------------------------------------------------------ bounds
MaxArrays == 2
MaxSectors == 2
MaxFlights == 1
MaxPlans == 2
MaxScenarios == 1
MaxColl == 2
MaxWaypoints == 2
MaxRecFlights == 2
MaxRecPlans == 2

\* ---------------------------------------------------------------- constants
\* Sector.py: np.zeros(96), len(capacity) != 96, 0 <= time_index < 96
NumSlots == 96

None == 0
NoRet == <<>>

\* lengths of the arrays a caller builds, time indices and values it passes
ArrayLens == {NumSlots - 1, NumSlots, NumSlots + 1}
TimeIndices == {-1, 0, NumSlots - 1, NumSlots}
CapValues == {7}
CallerValues == {9}
CallerIndices == {0}
FillValues == {1}
SectorNames == {"FIR"}

\* np.zeros(n, dtype=int) / np.ones(n) * fill
np_full(n, fill) == [k \in 1..n |-> fill]
np_zeros(n) == np_full(n, 0)

\* list.append, as add_flight_plan and add_flight use it, and its mirror image
list_prepend(list, x) == <<x>> \o list
list_append(list, x) == Append(list, x)

SOp(op, sector, arg, index, err, ret) ==
    [op |-> op, sector |-> sector, arg |-> arg, index |-> index, err |-> err, ret |-> ret]

\* the capacity array of sector s, read through its reference
Capacity(s) == arrays[sectors[s].capacity]

\* ---------------------------------------------------------------- Sector
\* The caller builds a numpy array of n slots (a possible capacity argument).
CallerNewArray(n, fill) ==
    /\ Len(arrays) < MaxArrays
    /\ arrays' = Append(arrays, np_full(n, fill))
    /\ held' = held \cup {Len(arrays) + 1}
    /\ sop' = SOp("new_array", 0, Len(arrays) + 1, 0, "none", NoRet)
    /\ UNCHANGED sectors
    /\ UNCHANGED nonSectorVars

\* Sector.__init__ without the length check on a supplied capacity
Sector_init_nocheck(name, capacity) ==
    /\ Len(sectors) < MaxSectors
    /\ IF capacity = None
       THEN /\ Len(arrays) < MaxArrays
            /\ arrays' = Append(arrays, np_zeros(NumSlots))
            /\ sectors' = Append(sectors, [name |-> name, capacity |-> Len(arrays) + 1])
            /\ sop' = SOp("init", Len(sectors) + 1, capacity, 0, "none", NoRet)
       ELSE /\ sectors' = Append(sectors, [name |-> name, capacity |-> capacity])
            /\ sop' = SOp("init", Len(sectors) + 1, capacity, 0, "none", NoRet)
            /\ UNCHANGED arrays
    /\ UNCHANGED held
    /\ UNCHANGED nonSectorVars

\* Sector.__init__(name, polygon, capacity): capacity is None (0) or a
\* reference to an array of the caller, which is stored as it is.
Sector_init(name, capacity) ==
    /\ IF capacity = None
       THEN /\ Len(sectors) < MaxSectors
            /\ Len(arrays) < MaxArrays
            /\ arrays' = Append(arrays, np_zeros(NumSlots))
            /\ sectors' = Append(sectors, [name |-> name, capacity |-> Len(arrays) + 1])
            /\ sop' = SOp("init", Len(sectors) + 1, capacity, 0, "none", NoRet)
       ELSE IF Len(arrays[capacity]) # NumSlots
            THEN /\ sop' = SOp("init", 0, capacity, 0, "ValueError", NoRet)
                 /\ UNCHANGED <<arrays, sectors>>
            ELSE /\ Len(sectors) < MaxSectors
                 /\ sectors' = Append(sectors, [name |-> name, capacity |-> capacity])
                 /\ sop' = SOp("init", Len(sectors) + 1, capacity, 0, "none", NoRet)
                 /\ UNCHANGED arrays
    /\ UNCHANGED held
    /\ UNCHANGED nonSectorVars

\* Sector.set_capacity with the range check off by one at the upper end
set_capacity_upper(s, time_index, value) ==
    /\ IF ~(0 <= time_index /\ time_index <= NumSlots)
       THEN /\ sop' = SOp("set_capacity", s, value, time_index, "ValueError", NoRet)
            /\ UNCHANGED arrays
       ELSE /\ arrays' = [arrays EXCEPT ![sectors[s].capacity] =
                              [k \in 1..Len(@) |-> IF k = time_index + 1 THEN value ELSE @[k]]]
            /\ sop' = SOp("set_capacity", s, value, time_index, "none", NoRet)
    /\ UNCHANGED <<held, sectors>>
    /\ UNCHANGED nonSectorVars

\* Sector.set_capacity(time_index, value)
set_capacity(s, time_index, value) ==
    /\ IF ~(0 <= time_index /\ time_index < NumSlots)
       THEN /\ sop' = SOp("set_capacity", s, value, time_index, "ValueError", NoRet)
            /\ UNCHANGED arrays
       ELSE /\ arrays' = [arrays EXCEPT ![sectors[s].capacity][time_index + 1] = value]
            /\ sop' = SOp("set_capacity", s, value, time_index, "none", NoRet)
    /\ UNCHANGED <<held, sectors>>
    /\ UNCHANGED nonSectorVars

\* Sector.get_capacity(time_index)
get_capacity(s, time_index) ==
    /\ IF ~(0 <= time_index /\ time_index < NumSlots)
       THEN sop' = SOp("get_capacity", s, 0, time_index, "ValueError", NoRet)
       ELSE sop' = SOp("get_capacity", s, 0, time_index, "none", <<Capacity(s)[time_index + 1]>>)
    /\ UNCHANGED <<arrays, held, sectors>>
    /\ UNCHANGED nonSectorVars

\* The caller writes a slot of an array it supplied to a Sector: a[i] = v.
CallerWrite(a, i, value) ==
    /\ \E s \in 1..Len(sectors) : sectors[s].capacity = a
    /\ 0 <= i /\ i < Len(arrays[a])
    /\ arrays' = [arrays EXCEPT ![a][i + 1] = value]
    /\ sop' = SOp("caller_write", 0, a, i, "none", NoRet)
    /\ UNCHANGED <<held, sectors>>
    /\ UNCHANGED nonSectorVars

\* load_sectors_from_traffic(): one Sector per row of the dataset, each
\* given a fresh np.zeros(96) that nothing else refers to.
load_sectors_from_traffic(rows) ==
    /\ Len(sectors) + rows <= MaxSectors
    /\ Len(arrays) + rows <= MaxArrays
    /\ arrays' = arrays \o [k \in 1..rows |-> np_zeros(NumSlots)]
    /\ sectors' = sectors \o [k \in 1..rows |-> [name |-> "FIR", capacity |-> Len(arrays) + k]]
    /\ sop' = SOp("load_sectors", Len(sectors) + rows, 0, 0, "none", NoRet)
    /\ UNCHANGED held
    /\ UNCHANGED nonSectorVars

\* ---------------------------------------------------------------- Flight
\* FlightPlan objects a caller files; preference_rank is the plan's own field.
PlanPool == {[id |-> "A", preference_rank |-> 2], [id |-> "B", preference_rank |-> 1]}
WakeInputs == {"Light", "Medium", "Heavy", "Super", "XL", "heavy"}
CostInputs == {25}
Callsigns == {"UAL123"}
MaxLists == MaxFlights

\* float(cost_index)
float(x) == [float |-> x]

FOp(op, flight, arg, err, ret) ==
    [op |-> op, flight |-> flight, arg |-> arg, err |-> err, ret |-> ret]

\* the set of categories with one member forgotten
valid_categories_short == {"Light", "Medium", "Heavy"}

\* Flight._validate_wake_category: the closed set of categories
valid_categories == {"Light", "Medium", "Heavy", "Super"}
validate_wake_category(category) == category \in valid_categories

\* the list of plans of flight f, read through its reference
FiledPlans(f) == planLists[flights[f].filed_plans]

\* The caller builds a list of plans (a possible filed_plans argument).
CallerNewList(content) ==
    /\ Len(planLists) < MaxLists
    /\ planLists' = Append(planLists, content)
    /\ heldLists' = heldLists \cup {Len(planLists) + 1}
    /\ fop' = FOp("new_list", 0, "", "none", <<>>)
    /\ UNCHANGED flights
    /\ UNCHANGED nonFlightVars

\* Flight.__init__(callsign, airline, aircraft, wake_turbulence_cat,
\* cost_index, filed_plans): filed_plans is None (0) or a reference to a list
\* of the caller, which is stored as it is.
Flight_init(callsign, wake_turbulence_cat, cost_index, plans) ==
    /\ IF ~validate_wake_category(wake_turbulence_cat)
       THEN /\ fop' = FOp("init", 0, wake_turbulence_cat, "ValueError", <<>>)
            /\ UNCHANGED <<planLists, flights>>
       ELSE /\ Len(flights) < MaxFlights
            /\ plans = None => Len(planLists) < MaxLists
            /\ planLists' = IF plans = None THEN Append(planLists, <<>>) ELSE planLists
            /\ flights' = Append(flights,
                    [callsign |-> callsign,
                     wake_turbulence_cat |-> wake_turbulence_cat,
                     cost_index |-> float(cost_index),
                     filed_plans |-> IF plans = None THEN Len(planLists) + 1 ELSE plans])
            /\ fop' = FOp("init", Len(flights) + 1, wake_turbulence_cat, "none", <<>>)
    /\ UNCHANGED heldLists
    /\ UNCHANGED nonFlightVars

\* Flight.add_flight_plan(flight_plan)
add_flight_plan(f, flight_plan) ==
    /\ Len(FiledPlans(f)) < MaxPlans
    /\ planLists' = [planLists EXCEPT ![flights[f].filed_plans] = list_append(@, flight_plan)]
    /\ fop' = FOp("add_flight_plan", f, flight_plan.id, "none", <<>>)
    /\ UNCHANGED <<heldLists, flights>>
    /\ UNCHANGED nonFlightVars

\* Flight.filed_plans: returns a copy of the list; fop.ret is that new list
filed_plans(f) ==
    /\ fop' = FOp("filed_plans", f, "", "none", FiledPlans(f))
    /\ UNCHANGED <<planLists, heldLists, flights>>
    /\ UNCHANGED nonFlightVars

\* The caller changes the copy filed_plans returned: ret.pop().
CallerCopyPop ==
    /\ fop.op = "filed_plans" /\ Len(fop.ret) > 0
    /\ fop' = FOp("copy_pop", fop.flight, "", "none", SubSeq(fop.ret, 1, Len(fop.ret) - 1))
    /\ UNCHANGED <<planLists, heldLists, flights>>
    /\ UNCHANGED nonFlightVars

\* The caller appends to a list it built: l.append(p).
CallerListAppend(l, flight_plan) ==
    /\ Len(planLists[l]) < MaxPlans
    /\ planLists' = [planLists EXCEPT ![l] = Append(@, flight_plan)]
    /\ fop' = FOp("caller_append", 0, flight_plan.id, "none", <<>>)
    /\ UNCHANGED <<heldLists, flights>>
    /\ UNCHANGED nonFlightVars

\* The caller removes the last element of a list it built: l.pop().
CallerListPop(l) ==
    /\ Len(planLists[l]) > 0
    /\ planLists' = [planLists EXCEPT ![l] = SubSeq(@, 1, Len(@) - 1)]
    /\ fop' = FOp("caller_pop", 0, "", "none", <<>>)
    /\ UNCHANGED <<heldLists, flights>>
    /\ UNCHANGED nonFlightVars

\* -------------------------------------------------------------- Scenario
\* Flight and Sector objects a caller puts into scenarios
FlightObjs == {"F1", "F2"}
SectorObjs == {"S1"}
ScenarioNames == {"Europe_Morning_Rush"}
MaxCollLists == MaxScenarios + 1

COp(op, scenario, ret) == [op |-> op, scenario |-> scenario, ret |-> ret]

\* scenario.flights and scenario.sectors, read through their references
ScenarioFlights(s) == colls[scenarios[s].flights]
ScenarioSectors(s) == colls[scenarios[s].sectors]

\* The caller builds a list (a possible flights or sectors argument).
CallerNewColl(content) ==
    /\ Len(colls) < MaxCollLists
    /\ colls' = Append(colls, content)
    /\ heldColls' = heldColls \cup {Len(colls) + 1}
    /\ cop' = COp("new_list", 0, <<>>)
    /\ UNCHANGED scenarios
    /\ UNCHANGED nonScenarioVars

\* Scenario.__init__(name, flights, sectors, datetime_str, author): flights
\* and sectors are None (0) or references to lists of the caller, which are
\* stored as they are; a None gets a new empty list.
Scenario_init(name, fl, sl, datetime_str, author) ==
    LET nf == IF fl = None THEN Len(colls) + 1 ELSE fl
        c1 == IF fl = None THEN Append(colls, <<>>) ELSE colls
        ns == IF sl = None THEN Len(c1) + 1 ELSE sl
        c2 == IF sl = None THEN Append(c1, <<>>) ELSE c1
    IN  /\ Len(scenarios) < MaxScenarios
        /\ Len(c2) <= MaxCollLists
        /\ colls' = c2
        /\ scenarios' = Append(scenarios,
                [name |-> name, flights |-> nf, sectors |-> ns,
                 datetime |-> datetime_str, author |-> author])
        /\ cop' = COp("init", Len(scenarios) + 1, <<>>)
        /\ UNCHANGED heldColls
        /\ UNCHANGED nonScenarioVars

\* Scenario.add_flight(flight)
add_flight(s, flight) ==
    /\ Len(ScenarioFlights(s)) < MaxColl
    /\ colls' = [colls EXCEPT ![scenarios[s].flights] = list_append(@, flight)]
    /\ cop' = COp("add_flight", s, <<>>)
    /\ UNCHANGED <<heldColls, scenarios>>
    /\ UNCHANGED nonScenarioVars

\* Scenario.add_sector(sector)
add_sector(s, sector) ==
    /\ Len(ScenarioSectors(s)) < MaxColl
    /\ colls' = [colls EXCEPT ![scenarios[s].sectors] = list_append(@, sector)]
    /\ cop' = COp("add_sector", s, <<>>)
    /\ UNCHANGED <<heldColls, scenarios>>
    /\ UNCHANGED nonScenarioVars

\* Scenario.get_flights(): returns a copy of the list; cop.ret is that new list
get_flights(s) ==
    /\ cop' = COp("get_flights", s, ScenarioFlights(s))
    /\ UNCHANGED <<colls, heldColls, scenarios>>
    /\ UNCHANGED nonScenarioVars

\* Scenario.get_sectors(): returns a copy of the list; cop.ret is that new list
get_sectors(s) ==
    /\ cop' = COp("get_sectors", s, ScenarioSectors(s))
    /\ UNCHANGED <<colls, heldColls, scenarios>>
    /\ UNCHANGED nonScenarioVars

\* The caller changes the copy get_flights or get_sectors returned: ret.pop().
CallerRetPop ==
    /\ cop.op \in {"get_flights", "get_sectors"} /\ Len(cop.ret) > 0
    /\ cop' = COp("ret_pop", cop.scenario, SubSeq(cop.ret, 1, Len(cop.ret) - 1))
    /\ UNCHANGED <<colls, heldColls, scenarios>>
    /\ UNCHANGED nonScenarioVars

\* The caller appends to a list it built: l.append(x).
CallerCollAppend(l, x) ==
    /\ Len(colls[l]) < MaxColl
    /\ colls' = [colls EXCEPT ![l] = Append(@, x)]
    /\ cop' = COp("caller_append", 0, <<>>)
    /\ UNCHANGED <<heldColls, scenarios>>
    /\ UNCHANGED nonScenarioVars

\* The caller removes the last element of a list it built: l.pop().
CallerCollPop(l) ==
    /\ Len(colls[l]) > 0
    /\ colls' = [colls EXCEPT ![l] = SubSeq(@, 1, Len(@) - 1)]
    /\ cop' = COp("caller_pop", 0, <<>>)
    /\ UNCHANGED <<heldColls, scenarios>>
    /\ UNCHANGED nonScenarioVars

\* The caller reverses a list it built: l.reverse().
CallerCollReverse(l) ==
    /\ Len(colls[l]) > 1
    /\ colls' = [colls EXCEPT ![l] = [k \in 1..Len(@) |-> @[Len(@) + 1 - k]]]
    /\ cop' = COp("caller_reverse", 0, <<>>)
    /\ UNCHANGED <<heldColls, scenarios>>
    /\ UNCHANGED nonScenarioVars

InitScenario ==
    /\ colls = <<>>
    /\ heldColls = {}
    /\ scenarios = <<>>
    /\ cop = COp("none", 0, <<>>)

NextScenario ==
    \/ \E x \in FlightObjs : CallerNewColl(<<x>>)
    \/ \E n \in ScenarioNames, fl \in {None} \cup heldColls, sl \in {None} \cup heldColls :
            Scenario_init(n, fl, sl, "None", "None")
    \/ \E s \in 1..Len(scenarios), x \in FlightObjs : add_flight(s, x)
    \/ \E s \in 1..Len(scenarios), x \in SectorObjs : add_sector(s, x)
    \/ \E s \in 1..Len(scenarios) : get_flights(s)
    \/ \E s \in 1..Len(scenarios) : get_sectors(s)
    \/ CallerRetPop
    \/ \E l \in heldColls, x \in FlightObjs : CallerCollAppend(l, x)
    \/ \E l \in heldColls : CallerCollPop(l)
    \/ \E l \in heldColls : CallerCollReverse(l)

\* ------------------------------------------------------------ FlightPlan
\* A waypoints argument is a list of rows, each a list of numbers; the lists
\* given are rectangular (n rows of k numbers) or empty.
LonInputs == {-181, -180, 180, 181}
LatInputs == {-91, -90, 90, 91}
TwoColumnRows == {<<lon, lat>> : lon \in LonInputs, lat \in LatInputs}
OneColumnRows == {<<lon>> : lon \in {0, 181}}
ThreeColumnRows == {<<lon, lat, 0>> : lon \in {0, 181}, lat \in {0}}
Matrices(rows, max) == UNION {[1..n -> rows] : n \in 0..max}
WaypointInputs(max) == Matrices(TwoColumnRows, max) \cup Matrices(OneColumnRows, max)
                          \cup Matrices(ThreeColumnRows, max)
ProfileInputs(v, max) == {[k \in 1..n |-> v] : n \in 0..(max + 1)}
DelayInputs == {-50, 300}
RankInputs == {0, 2}

NoPlan == [waypoints |-> <<>>]

Max(a, b) == IF a >= b THEN a ELSE b

\* np.array(x).shape for a rectangular list of lists: (n, k), and (0,) for []
np_shape(x) == IF Len(x) = 0 THEN <<0>> ELSE <<Len(x), Len(x[1])>>

\* the exception each message is raised as
ErrType(err) ==
    IF err = "none" THEN "none"
    ELSE IF err = "tuple index out of range" THEN "IndexError"
    ELSE "ValueError"

\* FlightPlan._validate_waypoints; shape[1] is the second entry of the shape
validate_waypoints(waypoints) ==
    IF Len(np_shape(waypoints)) < 2 THEN "tuple index out of range"
    ELSE IF np_shape(waypoints)[2] # 2 THEN "Waypoints must be a n x 2 matrix"
    ELSE IF ~(\A r \in 1..Len(waypoints) : -180 <= waypoints[r][1] /\ waypoints[r][1] <= 180)
         THEN "Longitude must be between -180 and 180 degrees"
    ELSE IF ~(\A r \in 1..Len(waypoints) : -90 <= waypoints[r][2] /\ waypoints[r][2] <= 90)
         THEN "Latitude must be between -90 and 90 degrees"
    ELSE "none"

\* FlightPlan._validate_dimensions
validate_dimensions(waypoints, altitudes, speeds) ==
    IF Len(altitudes) # Len(waypoints)
    THEN "Number of altitudes must match number of waypoints"
    ELSE IF Len(speeds) # Len(waypoints)
    THEN "Number of speeds must match number of waypoints"
    ELSE "none"

\* FlightPlan.__init__: the error raised ("none" when the plan is built) and
\* the plan, with delay_allowance and preference_rank clamped
FlightPlan_init(waypoints, altitudes, speeds, aircraft_category, delay_allowance, preference_rank) ==
    IF validate_waypoints(waypoints) # "none"
    THEN [err |-> validate_waypoints(waypoints), plan |-> NoPlan]
    ELSE IF validate_dimensions(waypoints, altitudes, speeds) # "none"
    THEN [err |-> validate_dimensions(waypoints, altitudes, speeds), plan |-> NoPlan]
    ELSE [err |-> "none",
          plan |-> [waypoints |-> waypoints, altitudes |-> altitudes, speeds |-> speeds,
                    aircraft_category |-> aircraft_category,
                    delay_allowance |-> Max(0, delay_allowance),
                    preference_rank |-> Max(1, preference_rank)]]

\* FlightPlan.__len__
plan_len(plan) == Len(plan.waypoints)

PlanArgs(waypoints, altitudes, speeds, delay_allowance, preference_rank) ==
    [waypoints |-> waypoints, altitudes |-> altitudes, speeds |-> speeds,
     delay_allowance |-> delay_allowance, preference_rank |-> preference_rank]

PlanInputs(max) ==
    {PlanArgs(w, a, v, d, r) : w \in WaypointInputs(max), a \in ProfileInputs(300, max),
                               v \in ProfileInputs(450, max), d \in DelayInputs, r \in RankInputs}

\* A caller constructs a FlightPlan from the arguments in fpIn.
ConstructPlan ==
    /\ fpOut.err = "pending"
    /\ fpOut' = FlightPlan_init(fpIn.waypoints, fpIn.altitudes, fpIn.speeds, "Heavy",
                                fpIn.delay_allowance, fpIn.preference_rank)
    /\ UNCHANGED fpIn
    /\ UNCHANGED nonPlanVars

\* no FlightPlan construction under way
InitPlan ==
    /\ fpIn = PlanArgs(<<>>, <<>>, <<>>, 0, 1)
    /\ fpOut = [err |-> "idle", plan |-> NoPlan]

\* a construction about to run on any of the arguments
InitPlanInputs ==
    /\ fpIn \in PlanInputs(MaxWaypoints)
    /\ fpOut = [err |-> "pending", plan |-> NoPlan]

NextPlan == ConstructPlan

\* ------------------------------------------------ load_scenario_from_file
\* A parsed YAML mapping is a function from its keys; dict.get(k, default):
DictGet(d, k, default) == IF k \in DOMAIN d THEN d[k] ELSE default

\* Python None as the value of a missing optional string
NoneStr == "<None>"
NoScenario == [name |-> NoneStr]
WakeError == "Wake turbulence category must be one of the valid categories"

\* plan records of the input: one with every optional key (to be clamped),
\* one with none, one whose longitude is out of range
PlanRecordFull ==
    [waypoints |-> <<<<0, 0>>, <<10, 20>>>>, altitudes |-> <<300, 350>>,
     speeds |-> <<450, 460>>, aircraft_category |-> "Heavy",
     delay_allowance |-> -50, preference_rank |-> 0]
PlanRecordPlain ==
    [waypoints |-> <<<<180, 90>>>>, altitudes |-> <<370>>, speeds |-> <<440>>,
     aircraft_category |-> "Medium"]
PlanRecordBad ==
    [waypoints |-> <<<<200, 0>>>>, altitudes |-> <<300>>, speeds |-> <<450>>,
     aircraft_category |-> "Heavy"]
PlanRecords == {PlanRecordFull, PlanRecordPlain, PlanRecordBad}

SeqsUpTo(S, n) == UNION {[1..k -> S] : k \in 0..n}

FlightRecordBase(wake) ==
    [callsign |-> "UAL123", wake_turbulence_cat |-> wake, cost_index |-> 25]
FlightRecords(maxPlans) ==
    {FlightRecordBase(w) : w \in {"Heavy", "XL"}}
    \cup {FlightRecordBase("Heavy") @@ [filed_plans |-> ps] :
              ps \in SeqsUpTo(PlanRecords, maxPlans)}
    \cup {FlightRecordBase("XL") @@ [filed_plans |-> <<PlanRecordPlain>>]}

\* documents: every header without flights and with one flight, and the
\* header without optional keys and the full one with every list of flights
EmptyHeader == [k \in {} |-> ""]
FullHeader ==
    [name |-> "Europe_Morning_Rush", datetime |-> "2024-03-20 06:00:00", author |-> "John Doe"]
ScenarioHeaders ==
    {EmptyHeader, FullHeader, [name |-> "Europe_Morning_Rush"],
     [datetime |-> "2024-03-20 06:00:00"], [author |-> "John Doe"]}
ScenarioRecords(maxFlights, maxPlans) ==
    ScenarioHeaders
    \cup {h @@ [flights |-> fs] : h \in ScenarioHeaders,
                                   fs \in SeqsUpTo(FlightRecords(1), 1)}
    \cup {h @@ [flights |-> fs] : h \in {EmptyHeader, FullHeader},
                                   fs \in SeqsUpTo(FlightRecords(maxPlans), maxFlights)}

\* Flight(callsign, ..., wake_turbulence_cat, cost_index) with no filed_plans:
\* the error raised, or the flight with a new empty list of plans
NewFlight(callsign, wake_turbulence_cat, cost_index) ==
    IF ~validate_wake_category(wake_turbulence_cat)
    THEN [err |-> WakeError, flight |-> <<>>]
    ELSE [err |-> "none",
          flight |-> [callsign |-> callsign,
                      wake_turbulence_cat |-> wake_turbulence_cat,
                      cost_index |-> float(cost_index),
                      filed_plans |-> <<>>]]

\* the loop over flight_data['filed_plans'], from record j on: each record is
\* built as a FlightPlan and added to the flight; the first error ends it
RECURSIVE LoadPlans(_, _, _)
LoadPlans(flight, plan_records, j) ==
    IF j > Len(plan_records) THEN [err |-> "none", flight |-> flight]
    ELSE LET plan_data == plan_records[j]
             built == FlightPlan_init(plan_data.waypoints, plan_data.altitudes,
                                      plan_data.speeds, plan_data.aircraft_category,
                                      DictGet(plan_data, "delay_allowance", 0),
                                      DictGet(plan_data, "preference_rank", 1))
         IN  IF built.err # "none" THEN [err |-> built.err, flight |-> flight]
             ELSE LoadPlans([flight EXCEPT !.filed_plans = list_append(@, built.plan)],
                            plan_records, j + 1)

\* the loop over scenario_data['flights'], from record i on
RECURSIVE LoadFlights(_, _, _)
LoadFlights(scenario, flight_records, i) ==
    IF i > Len(flight_records) THEN [err |-> "none", scenario |-> scenario]
    ELSE LET flight_data == flight_records[i]
             built == NewFlight(flight_data.callsign, flight_data.wake_turbulence_cat,
                                flight_data.cost_index)
             filled == IF "filed_plans" \in DOMAIN flight_data
                       THEN LoadPlans(built.flight, flight_data.filed_plans, 1)
                       ELSE built
         IN  IF built.err # "none" THEN [err |-> built.err, scenario |-> scenario]
             ELSE IF filled.err # "none" THEN [err |-> filled.err, scenario |-> scenario]
             ELSE LoadFlights([scenario EXCEPT !.flights = list_append(@, filled.flight)],
                              flight_records, i + 1)

\* the Scenario created at the start of load_scenario_from_file
LoadHeader(scenario_data) ==
    [name |-> DictGet(scenario_data, "name", "Unnamed Scenario"),
     flights |-> <<>>, sectors |-> <<>>,
     datetime |-> DictGet(scenario_data, "datetime", NoneStr),
     author |-> DictGet(scenario_data, "author", NoneStr)]

LoadBody(scenario_data) ==
    IF "flights" \in DOMAIN scenario_data
    THEN LoadFlights(LoadHeader(scenario_data), scenario_data.flights, 1)
    ELSE [err |-> "none", scenario |-> LoadHeader(scenario_data)]

\* a loader that keeps what it built when a record fails
load_scenario_keep_partial(scenario_data) ==
    [err |-> "none", scenario |-> LoadBody(scenario_data).scenario]

\* load_scenario_from_file on the parsed document: an exception leaves the
\* function with no return value
load_scenario_from_file(scenario_data) ==
    IF LoadBody(scenario_data).err # "none"
    THEN [err |-> LoadBody(scenario_data).err, scenario |-> NoScenario]
    ELSE [err |-> "none", scenario |-> LoadBody(scenario_data).scenario]

\* A caller loads the document in ldIn.
LoadScenario ==
    /\ ldOut.err = "pending"
    /\ ldOut' = load_scenario_from_file(ldIn)
    /\ UNCHANGED ldIn
    /\ UNCHANGED nonLoadVars

\* no load under way
InitLoad ==
    /\ ldIn = EmptyHeader
    /\ ldOut = [err |-> "idle", scenario |-> NoScenario]

\* a load about to run on any of the documents
InitLoadInputs ==
    /\ ldIn \in ScenarioRecords(MaxRecFlights, MaxRecPlans)
    /\ ldOut = [err |-> "pending", scenario |-> NoScenario]

NextLoad == LoadScenario

InitSector ==
    /\ arrays = <<>>
    /\ held = {}
    /\ sectors = <<>>
    /\ sop = SOp("none", 0, 0, 0, "none", NoRet)

InitFlight ==
    /\ planLists = <<>>
    /\ heldLists = {}
    /\ flights = <<>>
    /\ fop = FOp("none", 0, "", "none", <<>>)

NextFlight ==
    \/ \E p \in PlanPool : CallerNewList(<<p>>)
    \/ \E c \in Callsigns, w \in WakeInputs, x \in CostInputs, l \in {None} \cup heldLists :
            Flight_init(c, w, x, l)
    \/ \E f \in 1..Len(flights), p \in PlanPool : add_flight_plan(f, p)
    \/ \E f \in 1..Len(flights) : filed_plans(f)
    \/ CallerCopyPop
    \/ \E l \in heldLists, p \in PlanPool : CallerListAppend(l, p)
    \/ \E l \in heldLists : CallerListPop(l)

NextSector ==
    \/ \E n \in ArrayLens, fill \in FillValues : CallerNewArray(n, fill)
    \/ \E name \in SectorNames, capacity \in {None} \cup held : Sector_init(name, capacity)
    \/ \E s \in 1..Len(sectors), i \in TimeIndices, v \in CapValues : set_capacity(s, i, v)
    \/ \E s \in 1..Len(sectors), i \in TimeIndices : get_capacity(s, i)
    \/ \E a \in held, i \in CallerIndices, v \in CallerValues : CallerWrite(a, i, v)
    \/ \E rows \in 1..MaxSectors : load_sectors_from_traffic(rows)

Init == InitSector /\ InitFlight /\ InitScenario /\ InitPlan /\ InitLoad

SpecSector == Init /\ [][NextSector]_vars

SpecFlight == Init /\ [][NextFlight]_vars

SpecScenario == Init /\ [][NextScenario]_vars

PlanInit == InitSector /\ InitFlight /\ InitScenario /\ InitPlanInputs /\ InitLoad

SpecPlan == PlanInit /\ [][NextPlan]_vars

LoadInit == InitSector /\ InitFlight /\ InitScenario /\ InitPlan /\ InitLoadInputs

SpecLoad == LoadInit /\ [][NextLoad]_vars

SectorIds == 1..Len(sectors)
InRange(i) == 0 <= i /\ i < NumSlots
IsSectorCall(o) == o.op \in {"set_capacity", "get_capacity"}

\* C1: every Sector's capacity array has exactly 96 slots in every reachable
\* state; constructing with a supplied capacity whose length is not 96 fails
\* with the validation error and adds no Sector; constructing with no
\* capacity yields 96 slots all equal to 0.
C1_CapacityHas96Slots ==
    /\ [](\A s \in SectorIds : Len(Capacity(s)) = NumSlots)
    /\ []((sop.op = "init" /\ sop.arg = None) =>
            /\ sop.err = "none"
            /\ sop.sector = Len(sectors)
            /\ Capacity(sop.sector) = [k \in 1..NumSlots |-> 0])
    /\ []((sop.op = "init" /\ sop.arg # None) =>
            (sop.err = "ValueError" <=> Len(arrays[sop.arg]) # NumSlots))
    /\ [][(sop'.op = "init" /\ sop'.err = "ValueError") => sectors' = sectors]_vars
    /\ [][(sop'.op = "init" /\ sop'.err = "none") => Len(sectors') = Len(sectors) + 1]_vars

\* C1 witness: a construction with a wrong-length capacity has just failed
\* while a Sector built earlier has had a slot set.
C1_Witness ==
    /\ sop.op = "init" /\ sop.err = "ValueError"
    /\ \E s \in SectorIds : Capacity(s)[1] \in CapValues

\* C2: set_capacity and get_capacity fail with the validation error exactly
\* when the index is outside 0..95, and a failed call changes no slot of any
\* capacity array.
C2_IndexRange ==
    /\ [](IsSectorCall(sop) => (sop.err = "ValueError" <=> ~InRange(sop.index)))
    /\ [][(IsSectorCall(sop') /\ sop'.err = "ValueError") => arrays' = arrays]_vars

\* C2 witness: set_capacity(96, v) has just failed on a sector whose slot 95
\* was set before.
C2_Witness ==
    /\ sop.op = "set_capacity" /\ sop.index = NumSlots /\ sop.err = "ValueError"
    /\ Capacity(sop.sector)[NumSlots] \in CapValues

\* C3: after set_capacity(i, v) on a sector, slot i of that sector holds v
\* and keeps it until the next set_capacity(i, _) on that sector, every other
\* slot of that sector is unchanged by the call, and get_capacity returns the
\* slot and changes nothing.
C3_SetThenGet ==
    [][\A s \in SectorIds :
         /\ (sop'.op = "set_capacity" /\ sop'.sector = s /\ sop'.err = "none") =>
                Capacity(s)' = [Capacity(s) EXCEPT ![sop'.index + 1] = sop'.arg]
         /\ ~(sop'.op = "set_capacity" /\ sop'.sector = s /\ sop'.err = "none") =>
                Capacity(s)' = Capacity(s)
         /\ (sop'.op = "get_capacity" /\ sop'.sector = s /\ sop'.err = "none") =>
                sop'.ret = <<Capacity(s)[sop'.index + 1]>>
      ]_vars

\* C10: set_capacity on one sector never changes the capacity of another
\* sector, and a write by the caller to an array it supplied never changes
\* the capacity of any sector.
C10_SectorsIndependent ==
    [][\A b \in SectorIds :
         /\ (sop'.op = "set_capacity" /\ sop'.sector # b) => Capacity(b)' = Capacity(b)
         /\ sop'.op = "caller_write" => Capacity(b)' = Capacity(b)
      ]_vars

FlightIds == 1..Len(flights)
IsPrefix(a, b) == Len(a) <= Len(b) /\ SubSeq(b, 1, Len(a)) = a

\* C4: a Flight's filed plans are append-only: the sequence a flight holds
\* before any step is a prefix of the one it holds after it, and
\* add_flight_plan(p) puts p at the end whatever p's preference_rank is and
\* whether or not p is already in the list.
C4_AppendOnly ==
    [][\A f \in FlightIds :
         /\ IsPrefix(FiledPlans(f), FiledPlans(f)')
         /\ (fop'.op = "add_flight_plan" /\ fop'.flight = f) =>
                \E p \in PlanPool : /\ p.id = fop'.arg
                                    /\ FiledPlans(f)' = Append(FiledPlans(f), p)
      ]_vars

\* C9: Flight construction succeeds exactly when wake_turbulence_cat is one
\* of Light, Medium, Heavy, Super; the new flight then holds the value given;
\* a failed construction adds no Flight; and no later step changes the
\* wake_turbulence_cat of a flight.
C9_WakeCategory ==
    /\ [](fop.op = "init" =>
            (fop.err = "none" <=> fop.arg \in {"Light", "Medium", "Heavy", "Super"}))
    /\ []((fop.op = "init" /\ fop.err = "none") =>
            /\ fop.flight = Len(flights)
            /\ flights[fop.flight].wake_turbulence_cat = fop.arg)
    /\ []((fop.op = "init" /\ fop.err # "none") => fop.err = "ValueError")
    /\ [][(fop'.op = "init" /\ fop'.err # "none") => flights' = flights]_vars
    /\ [][\A f \in FlightIds :
             flights'[f].wake_turbulence_cat = flights[f].wake_turbulence_cat]_vars

\* C9 witness: a flight built with Super has had two plans added.
C9_Witness ==
    /\ fop.op = "add_flight_plan"
    /\ flights[fop.flight].wake_turbulence_cat = "Super"
    /\ Len(FiledPlans(fop.flight)) = 2

ScenarioIds == 1..Len(scenarios)

\* C5: a Scenario exclusively owns its collections: only add_flight on a
\* scenario changes that scenario's flights and only add_sector on it changes
\* its sectors; no change the caller makes to a list it holds (one returned
\* by get_flights/get_sectors or one it passed to the constructor) does.
C5_ExclusiveOwnership ==
    [][\A s \in ScenarioIds :
         /\ ~(cop'.op = "add_flight" /\ cop'.scenario = s) =>
                ScenarioFlights(s)' = ScenarioFlights(s)
         /\ ~(cop'.op = "add_sector" /\ cop'.scenario = s) =>
                ScenarioSectors(s)' = ScenarioSectors(s)
      ]_vars

\* the three checks as the contract words them, on the arguments alone
TwoColumns(w) == \A r \in 1..Len(w) : Len(w[r]) = 2
InBounds(w) == \A r \in 1..Len(w) : /\ -180 <= w[r][1] /\ w[r][1] <= 180
                                      /\ -90 <= w[r][2] /\ w[r][2] <= 90
SameLengths(w, a, v) == Len(a) = Len(w) /\ Len(v) = Len(w)
ColumnErrors == {"Waypoints must be a n x 2 matrix"}
RangeErrors == {"Longitude must be between -180 and 180 degrees",
                "Latitude must be between -90 and 90 degrees"}
LengthErrors == {"Number of altitudes must match number of waypoints",
                 "Number of speeds must match number of waypoints"}

\* C6: a FlightPlan construction fails with the validation error of the
\* first failing check in the order (a) two columns, (b) longitude/latitude
\* bounds, (c) altitudes and speeds as long as the waypoints, and succeeds
\* exactly when all three hold, the plan's length then being the waypoint
\* count.
C6_ValidationOrder ==
    fpOut.err \notin {"idle", "pending"} =>
        IF ~TwoColumns(fpIn.waypoints) THEN fpOut.err \in ColumnErrors
        ELSE IF ~InBounds(fpIn.waypoints) THEN fpOut.err \in RangeErrors
        ELSE IF ~SameLengths(fpIn.waypoints, fpIn.altitudes, fpIn.speeds)
             THEN fpOut.err \in LengthErrors
        ELSE fpOut.err = "none" /\ plan_len(fpOut.plan) = Len(fpIn.waypoints)

\* the input's flight records and a flight record's plan records
RecFlights(d) == IF "flights" \in DOMAIN d THEN d.flights ELSE <<>>
RecPlans(fr) == IF "filed_plans" \in DOMAIN fr THEN fr.filed_plans ELSE <<>>
\* the error constructing the Flight, or the FlightPlan, of a record raises
FlightRecErr(fr) ==
    IF fr.wake_turbulence_cat \in {"Light", "Medium", "Heavy", "Super"}
    THEN "none" ELSE WakeError
PlanRecErr(pr) ==
    FlightPlan_init(pr.waypoints, pr.altitudes, pr.speeds, pr.aircraft_category,
                    IF "delay_allowance" \in DOMAIN pr THEN pr.delay_allowance ELSE 0,
                    IF "preference_rank" \in DOMAIN pr THEN pr.preference_rank ELSE 1).err
\* flight record i and everything in it can be constructed
FlightRecValid(d, i) ==
    /\ FlightRecErr(RecFlights(d)[i]) = "none"
    /\ \A j \in 1..Len(RecPlans(RecFlights(d)[i])) :
           PlanRecErr(RecPlans(RecFlights(d)[i])[j]) = "none"
\* e is the error of the first construction that fails, in record order
IsFirstError(d, e) ==
    \E i \in 1..Len(RecFlights(d)) :
        /\ \A k \in 1..(i - 1) : FlightRecValid(d, k)
        /\ \/ FlightRecErr(RecFlights(d)[i]) # "none" /\ e = FlightRecErr(RecFlights(d)[i])
           \/ /\ FlightRecErr(RecFlights(d)[i]) = "none"
              /\ \E j \in 1..Len(RecPlans(RecFlights(d)[i])) :
                     /\ \A k \in 1..(j - 1) :
                            PlanRecErr(RecPlans(RecFlights(d)[i])[k]) = "none"
                     /\ PlanRecErr(RecPlans(RecFlights(d)[i])[j]) # "none"
                     /\ e = PlanRecErr(RecPlans(RecFlights(d)[i])[j])
LoadFinished == ldOut.err \notin {"idle", "pending"}

\* C7: the assembly is all-or-nothing: it returns a Scenario exactly when
\* every flight record and every plan record of the input can be
\* constructed; otherwise it fails with the error of the first record whose
\* construction fails and returns no Scenario.
C7_AllOrNothing ==
    LoadFinished =>
        /\ (ldOut.err = "none") <=> \A i \in 1..Len(RecFlights(ldIn)) : FlightRecValid(ldIn, i)
        /\ (ldOut.err = "none") <=> (ldOut.scenario # NoScenario)
        /\ ldOut.err # "none" => IsFirstError(ldIn, ldOut.err)

\* C7 witness: a load failed on the second plan of the second flight, after
\* a flight and a plan had been built.
C7_Witness ==
    /\ LoadFinished /\ ldOut.err # "none"
    /\ Len(RecFlights(ldIn)) = 2
    /\ FlightRecErr(RecFlights(ldIn)[1]) = "none"
    /\ Len(RecPlans(RecFlights(ldIn)[2])) = 2
    /\ PlanRecErr(RecPlans(RecFlights(ldIn)[2])[1]) = "none"
    /\ PlanRecErr(RecPlans(RecFlights(ldIn)[2])[2]) # "none"

\* C8: a successful assembly returns the flights in record order, each with
\* one plan per plan record in record order (none when the flight record has
\* no filed_plans), the name of the record or "Unnamed Scenario", and
\* datetime and author of the record or None.
C8_RecordOrder ==
    (LoadFinished /\ ldOut.err = "none") =>
        LET sc == ldOut.scenario
            frs == RecFlights(ldIn)
        IN  /\ sc.name = IF "name" \in DOMAIN ldIn THEN ldIn.name ELSE "Unnamed Scenario"
            /\ sc.datetime = IF "datetime" \in DOMAIN ldIn THEN ldIn.datetime ELSE NoneStr
            /\ sc.author = IF "author" \in DOMAIN ldIn THEN ldIn.author ELSE NoneStr
            /\ Len(sc.flights) = Len(frs)
            /\ \A i \in 1..Len(frs) :
                   /\ sc.flights[i].callsign = frs[i].callsign
                   /\ sc.flights[i].wake_turbulence_cat = frs[i].wake_turbulence_cat
                   /\ Len(sc.flights[i].filed_plans) = Len(RecPlans(frs[i]))
                   /\ \A j \in 1..Len(RecPlans(frs[i])) :
                          /\ sc.flights[i].filed_plans[j].waypoints = RecPlans(frs[i])[j].waypoints
                          /\ sc.flights[i].filed_plans[j].altitudes = RecPlans(frs[i])[j].altitudes
                          /\ sc.flights[i].filed_plans[j].speeds = RecPlans(frs[i])[j].speeds
                          /\ sc.flights[i].filed_plans[j].aircraft_category =
                                 RecPlans(frs[i])[j].aircraft_category

\* C8 witness: a load of a record without a name succeeded on two flights,
\* the first with two different plans, the second with no filed_plans key.
C8_Witness ==
    /\ LoadFinished /\ ldOut.err = "none"
    /\ "name" \notin DOMAIN ldIn
    /\ Len(RecFlights(ldIn)) = 2
    /\ RecPlans(RecFlights(ldIn)[1]) = <<PlanRecordFull, PlanRecordPlain>>
    /\ "filed_plans" \notin DOMAIN RecFlights(ldIn)[2]
    /\ Len(ldOut.scenario.flights[1].filed_plans) = 2

====
